---- MODULE Spec2Model ----
(***************************************************************************)
(* Model of src/main.py: the weekly RDS maintenance report.  One run of    *)
(* the script fetches the database status (get_rds_details), looks for    *)
(* the latest report in the mailbox (find_existing_thread), composes a    *)
(* new mail or a reply (send_report) and submits it.  Runs are coupled    *)
(* only through the mailbox, so the model keeps the inbox across runs.    *)
(*                                                                         *)
(* Encoding.  A Python string is a sequence of one-character strings.  An *)
(* optional value (None or v) is the sequence <<>> or <<v>>.  A header    *)
(* that may occur several times is the sequence of its values, as         *)
(* Message.get_all returns them.  An address-header value is a sequence   *)
(* of entries <<display name, address>>; the empty value is <<>>.  A      *)
(* References value is a sequence of tokens: SP for a space, a positive   *)
(* number for a Message-ID.                                                *)
(***************************************************************************)
EXTENDS Naturals, Sequences, FiniteSets

\* ----------------------------------------------------------------- bounds
MaxRuns == 2
MaxHuman == 1

\* ---------------------------------------------------------- configuration
MAIL_SUBJECT ==
    <<"W","e","e","k","l","y"," ","R","D","S"," ",
      "M","a","i","n","t","e","n","a","n","c","e"," ",
      "R","e","p","o","r","t">>

RECIPIENTS ==
    <<"trinadh5121@gmail.com",
      "keerthisetty2001@gmail.com",
      "2021tm70803@wilp.bitspilani.ac.in">>

\* os.environ['EMAIL_USER']: the account that sends and whose inbox is read.
EMAIL_USER == "bot@example.com"

\* The single space of  (References or '') + ' ' + Message-ID.
SP == 0

VARIABLES
    inbox,          \* the sender's inbox, in arrival (sequence-number) order
    nextId,         \* the next Message-ID a mail system hands out
    humans,         \* mails other senders have delivered so far
    run,            \* runs started so far
    pc,             \* position of the current run
    rds_data,       \* <<>> or <<the record get_rds_details returned>>
    fetchErr,       \* <<>> or <<text of the error get_rds_details caught>>
    original_msg,   \* <<>> (None) or <<the message find_existing_thread returned>>
    imap,           \* mailbox session: "none", "open", "closed"
    imapErr,        \* "none" or the step of the mailbox session that raised
    matches,        \* number of search results of this run
    sessions,       \* mailbox sessions opened by this run
    msg,            \* <<>> or <<the composed outgoing message>>
    final_to_list,  \* the send-envelope
    attempts,       \* mail-submission attempts of this run
    configured,     \* the four environment variables were present
    sent            \* history: one record per message the server accepted

vars == <<inbox, nextId, humans, run, pc, rds_data, fetchErr,
          original_msg, imap, imapErr, matches, sessions, msg,
          final_to_list, attempts, configured, sent>>

\* ---------------------------------------------------------------- strings
Range(s) == {s[i] : i \in 1..Len(s)}

UpperChars == <<"W","R","D","S","M","E","F","H">>
LowerChars == <<"w","r","d","s","m","e","f","h">>

LowerChar(c) ==
    IF \E i \in 1..Len(UpperChars) : UpperChars[i] = c
    THEN LowerChars[CHOOSE i \in 1..Len(UpperChars) : UpperChars[i] = c]
    ELSE c

\* str.lower()
Lower(s) == [i \in 1..Len(s) |-> LowerChar(s[i])]

\* str.startswith(p)
StartsWith(s, p) == Len(s) >= Len(p) /\ SubSeq(s, 1, Len(p)) = p

Contains(s, p) ==
    \E i \in 0..Len(s) : i + Len(p) <= Len(s) /\ SubSeq(s, i + 1, i + Len(p)) = p

RePrefix == <<"r","e",":">>
ReSpace == <<"R","e",":"," ">>

\* -------------------------------------------------------- get_rds_details
\* Text of the exceptions the cloud client can raise.
FetchErrors == {"Read timeout on endpoint URL", "DBInstanceNotFound"}

\* Where get_rds_details can raise: creating the client, the API call,
\* reading the response (no instance in it, a key missing).
FetchSteps == {"client", "describe", "extract"}

\* response['DBInstances'][0] of a successful call: an instance without
\* Endpoint and PendingModifiedValues, and one with both (the mapping is a
\* set of <<key, value>> pairs).
DbInstances ==
    {[Engine |-> "postgres", EngineVersion |-> "15.4",
      DBInstanceStatus |-> "creating",
      Endpoint |-> <<>>,
      PreferredMaintenanceWindow |-> "sun:03:00-sun:04:00",
      PendingModifiedValues |-> <<>>],
     [Engine |-> "postgres", EngineVersion |-> "15.4",
      DBInstanceStatus |-> "available",
      Endpoint |-> <<"db.example.com">>,
      PreferredMaintenanceWindow |-> "sun:03:00-sun:04:00",
      PendingModifiedValues |-> <<{<<"AllocatedStorage", "100">>}>>]}

\* The dictionary built from the response.
StatusRecord(db) ==
    [engine |-> db.Engine,
     version |-> db.EngineVersion,
     status |-> db.DBInstanceStatus,
     endpoint |-> IF db.Endpoint = <<>> THEN "No Endpoint" ELSE db.Endpoint[1],
     maintenance_window |-> db.PreferredMaintenanceWindow,
     pending_mods |-> IF db.PendingModifiedValues = <<>> THEN {}
                      ELSE db.PendingModifiedValues[1]]

\* Variant: the error text is lost.
DegradedRecord_NoText(e) ==
    [engine |-> "Error", version |-> "Error", status |-> "Error", pending_mods |-> {}]

\* The dictionary of the except branch.
DegradedRecord(e) ==
    [engine |-> "Error", version |-> "Error", status |-> e, pending_mods |-> {}]

\* ------------------------------------------------------------ the mailbox
\* IMAP SEARCH SUBJECT: the messages whose Subject header contains the
\* string, letter case ignored; the result is in sequence-number order.
Matches(m) ==
    /\ m.subject # <<>>
    /\ Contains(Lower(m.subject[1]), Lower(MAIL_SUBJECT))

email_ids(box) == {i \in 1..Len(box) : Matches(box[i])}

\* Variant: the first search result is taken, email_ids[0].
latest_id_First(box) == CHOOSE i \in email_ids(box) : \A j \in email_ids(box) : i <= j

\* email_ids[-1]
latest_id(box) == CHOOSE i \in email_ids(box) : \A j \in email_ids(box) : j <= i

\* Steps of the mailbox session that can raise.
ImapSteps == {"connect", "login", "select", "search", "fetch", "parse"}

\* The session is open once connect and login have succeeded.
OpenedBefore(step) == step \notin {"connect", "login"}

\* ------------------------------------------------------ header round trip
\* The header parser drops the white space that follows "Name:".
RECURSIVE LStrip(_, _)
LStrip(s, blank) ==
    IF s # <<>> /\ s[1] = blank THEN LStrip(Tail(s), blank) ELSE s

\* What a mailbox holds of a message submitted as msg.as_string(): a header
\* set to None is written with an empty value; the submission server
\* (smtp.gmail.com) adds the Message-ID, which the script never sets.
Stored(m, id) ==
    [subject |-> <<LStrip(m.subject, " ")>>,
     mid |-> <<id>>,
     refs |-> IF m.refs = <<>> THEN <<>> ELSE <<LStrip(m.refs[1], SP)>>,
     to |-> <<IF m.to = <<>> THEN <<>> ELSE m.to[1]>>,
     cc |-> <<IF m.cc = <<>> THEN <<>> ELSE m.cc[1]>>,
     from |-> <<m.from>>]

\* ------------------------------------------------------------ send_report
Entry(a) == <<"", a>>

\* ", ".join(RECIPIENTS) as a header value
RecipientsValue == [i \in 1..Len(RECIPIENTS) |-> Entry(RECIPIENTS[i])]

\* Variant: the sender is not added to the envelope.
NewEnvelope_NoSelf(user) == RECIPIENTS

\* RECIPIENTS + [EMAIL_USER]
NewEnvelope(user) == RECIPIENTS \o <<user>>

\* Variant: the new mail already carries the reply prefix.
NewMessage_Re(user) ==
    [subject |-> ReSpace \o MAIL_SUBJECT, inReplyTo |-> <<>>, refs |-> <<>>,
     to |-> <<RecipientsValue>>, cc |-> <<<<Entry(user)>>>>,
     from |-> <<Entry(user)>>]

\* The message of the NEW branch.
NewMessage(user) ==
    [subject |-> MAIL_SUBJECT, inReplyTo |-> <<>>, refs |-> <<>>,
     to |-> <<RecipientsValue>>, cc |-> <<<<Entry(user)>>>>,
     from |-> <<Entry(user)>>]

\* Variant: the prefix test is case-sensitive and looks for "Re: ".
ReplySubject_CaseSensitive(subject) ==
    IF ~StartsWith(subject, ReSpace) THEN ReSpace \o subject ELSE subject

\* new_subject of the REPLY branch
ReplySubject(subject) ==
    IF ~StartsWith(Lower(subject), RePrefix) THEN ReSpace \o subject ELSE subject

\* Variant: the chain is restarted at every reply.
ReplyReferences_NoChain(refs, id) == <<SP>> \o <<id>>

\* (original_msg['References'] or '') + ' ' + original_msg['Message-ID']
ReplyReferences(refs, id) ==
    (IF refs = <<>> THEN <<>> ELSE refs[1]) \o <<SP>> \o <<id>>

\* str(None)
NoneText == "None"

\* email.utils.getaddresses: the values are joined with ", " after str()
\* and parsed as one address list.  None contributes the address "None",
\* an empty value the empty address.  (CPython merges adjacent empty
\* values into one entry; the set built from the list is the same.)
RECURSIVE getaddresses(_)
getaddresses(fieldvalues) ==
    IF fieldvalues = <<>> THEN <<>>
    ELSE LET f == Head(fieldvalues)
             here == IF f = <<>> THEN <<Entry(NoneText)>>
                     ELSE IF f[1] = <<>> THEN <<Entry("")>>
                     ELSE f[1]
         IN  here \o getaddresses(Tail(fieldvalues))

\* tos + ccs + [original_msg.get('from')]
FieldValues(m) ==
    [i \in 1..Len(m.to) |-> <<m.to[i]>>] \o
    [i \in 1..Len(m.cc) |-> <<m.cc[i]>>] \o
    <<IF m.from = <<>> THEN <<>> ELSE <<m.from[1]>>>>

\* Variant: the From of the prior message is left out.
reply_list_NoFrom(m) ==
    LET all_addrs == getaddresses(
            [i \in 1..Len(m.to) |-> <<m.to[i]>>] \o
            [i \in 1..Len(m.cc) |-> <<m.cc[i]>>])
    IN  [i \in 1..Len(all_addrs) |-> all_addrs[i][2]]

\* [addr for name, addr in all_addrs]
reply_list(m) ==
    LET all_addrs == getaddresses(FieldValues(m))
    IN  [i \in 1..Len(all_addrs) |-> all_addrs[i][2]]

\* set(reply_list + RECIPIENTS + [EMAIL_USER])
final_set(m, user) == Range(reply_list(m) \o RECIPIENTS \o <<user>>)

\* list(final_set): the order is the set's iteration order, which Python
\* does not specify; nothing below depends on it.
RECURSIVE ListOf(_)
ListOf(S) ==
    IF S = {} THEN <<>>
    ELSE LET x == CHOOSE y \in S : TRUE IN <<x>> \o ListOf(S \ {x})

\* original_msg['To'], original_msg['Cc']: the first occurrence or None
First(values) == IF values = <<>> THEN <<>> ELSE <<values[1]>>

\* The message of the REPLY branch (Subject and Message-ID are present).
ReplyMessage(m, user) ==
    [subject |-> ReplySubject(m.subject[1]),
     inReplyTo |-> m.mid,
     refs |-> <<ReplyReferences(m.refs, m.mid[1])>>,
     to |-> First(m.to), cc |-> First(m.cc),
     from |-> <<Entry(user)>>]

\* The REPLY branch raises before the send when it calls .lower() on an
\* absent Subject or concatenates an absent Message-ID.
ReplyRaises(m) == m.subject = <<>> \/ m.mid = <<>>

\* ------------------------------------------------- mail from other senders
Human == "h@example.com"
Other == "x@example.com"
Third == "y@example.com"

Fwd == <<"F","w","d",":"," ">>
ReUpper == <<"R","E",":"," ">>
Hello == <<"H","e","l","l","o">>

\* Subject of a mail another sender delivers: none, the report's subject,
\* a reply to it, a forward of it, an unrelated one.
HumanSubjects ==
    {<<>>, <<MAIL_SUBJECT>>, <<ReUpper \o MAIL_SUBJECT>>,
     <<Fwd \o MAIL_SUBJECT>>, <<Hello>>}

\* To: none; one header with a display name and a duplicate; two headers.
HumanTo(user) ==
    {<<>>,
     <<<<Entry(user), <<"X", Other>>, Entry(user)>>>>,
     <<<<Entry(Other)>>, <<Entry(Third)>>>>}

HumanCc == {<<>>, <<<<Entry(Other)>>>>}

HumanFrom == {<<>>, <<<<<<"H", Human>>>>>>}

\* References of a mail another sender delivers: none, empty, or the
\* Message-ID of the latest message of the inbox.
HumanRefs(box) ==
    {<<>>, <<<<>>>>} \cup
    {<<box[i].mid>> : i \in {j \in 1..Len(box) : j = Len(box) /\ box[j].mid # <<>>}}

\* The headers of a well-formed reply to the report.
Nominal(m, user, id) ==
    <<m.subject = <<ReUpper \o MAIL_SUBJECT>>,
      m.mid = <<id>>,
      m.refs = <<>>,
      m.to = <<<<Entry(user), <<"X", Other>>, Entry(user)>>>>,
      m.cc = <<>>,
      m.from # <<>>>>

\* The mails another sender may deliver: a well-formed reply, or one that
\* differs from it in a single header.
HumanMessages(box, user, id) ==
    {m \in [subject : HumanSubjects, mid : {<<>>, <<id>>}, refs : HumanRefs(box),
            to : HumanTo(user), cc : HumanCc, from : HumanFrom] :
        \A i, j \in 1..Len(Nominal(m, user, id)) :
            i # j => Nominal(m, user, id)[i] \/ Nominal(m, user, id)[j]}

\* ------------------------------------------------------------------ state
NoLocals ==
    /\ rds_data' = <<>>
    /\ fetchErr' = <<>>
    /\ original_msg' = <<>>
    /\ imap' = "none"
    /\ imapErr' = "none"
    /\ matches' = 0
    /\ sessions' = 0
    /\ msg' = <<>>
    /\ final_to_list' = <<>>

Init ==
    /\ inbox = <<>>
    /\ nextId = 1
    /\ humans = 0
    /\ run = 0
    /\ pc = "idle"
    /\ rds_data = <<>>
    /\ fetchErr = <<>>
    /\ original_msg = <<>>
    /\ imap = "none"
    /\ imapErr = "none"
    /\ matches = 0
    /\ sessions = 0
    /\ msg = <<>>
    /\ final_to_list = <<>>
    /\ attempts = 0
    /\ configured = FALSE
    /\ sent = <<>>

Terminated == {"exit", "crashed"}

\* The scheduler starts the script; the module body reads the four
\* environment variables and raises KeyError when one is missing.
LoadModule ==
    /\ pc \in {"idle"} \cup Terminated
    /\ run < MaxRuns
    /\ run' = run + 1
    /\ attempts' = 0
    /\ NoLocals
    /\ \E present \in BOOLEAN :
          /\ configured' = present
          /\ pc' = IF present THEN "main" ELSE "crashed"
    /\ UNCHANGED <<inbox, nextId, humans, sent>>

\* rds_data = get_rds_details()
get_rds_details ==
    /\ pc = "main"
    /\ \/ \E db \in DbInstances :
             /\ rds_data' = <<StatusRecord(db)>>
             /\ fetchErr' = <<>>
       \/ \E step \in FetchSteps, e \in FetchErrors :
             /\ rds_data' = <<DegradedRecord(e)>>
             /\ fetchErr' = <<e>>
    /\ pc' = "send_report"
    /\ UNCHANGED <<inbox, nextId, humans, run, original_msg, imap,
                   imapErr, matches, sessions, msg, final_to_list, attempts,
                   configured, sent>>

\* original_msg = find_existing_thread()
find_existing_thread ==
    /\ pc = "send_report"
    /\ \/ /\ imapErr' = "none"
          /\ matches' = Cardinality(email_ids(inbox))
          /\ original_msg' = IF email_ids(inbox) = {} THEN <<>>
                             ELSE <<inbox[latest_id(inbox)]>>
          /\ imap' = "closed"
          /\ sessions' = sessions + 1
       \/ \E step \in ImapSteps :
             /\ step \in {"fetch", "parse"} => email_ids(inbox) # {}
             /\ imapErr' = step
             /\ matches' = IF step \in {"fetch", "parse"}
                           THEN Cardinality(email_ids(inbox)) ELSE 0
             /\ original_msg' = <<>>
             /\ imap' = IF OpenedBefore(step) THEN "open" ELSE "none"
             /\ sessions' = IF OpenedBefore(step) THEN sessions + 1 ELSE sessions
    /\ pc' = "compose"
    /\ UNCHANGED <<inbox, nextId, humans, run, rds_data, fetchErr,
                   msg, final_to_list, attempts, configured, sent>>

\* send_report from the MIMEMultipart() to msg.attach(...): NEW or REPLY.
send_report ==
    /\ pc = "compose"
    /\ \/ /\ original_msg = <<>>
          /\ msg' = <<NewMessage(EMAIL_USER)>>
          /\ final_to_list' = NewEnvelope(EMAIL_USER)
          /\ pc' = "sending"
          /\ UNCHANGED <<rds_data, fetchErr, original_msg, imap, imapErr,
                         matches, sessions>>
       \/ /\ original_msg # <<>>
          /\ ~ReplyRaises(original_msg[1])
          /\ msg' = <<ReplyMessage(original_msg[1], EMAIL_USER)>>
          /\ final_to_list' = ListOf(final_set(original_msg[1], EMAIL_USER))
          /\ pc' = "sending"
          /\ UNCHANGED <<rds_data, fetchErr, original_msg, imap, imapErr,
                         matches, sessions>>
       \/ /\ original_msg # <<>>
          /\ ReplyRaises(original_msg[1])
          /\ pc' = "crashed"
          /\ NoLocals
    /\ UNCHANGED <<inbox, nextId, humans, run, attempts,
                   configured, sent>>

\* Steps of the SENDING block that can raise.
SmtpSteps == {"connect", "starttls", "login", "sendmail", "quit"}

\* The server has accepted the message unless a step up to sendmail raised.
Accepted(step) == step \in {"none", "quit"}

\* The SENDING block, then the end of the process.  An accepted message is
\* given a Message-ID and lands in the sender's inbox when the sender is
\* among the envelope recipients.
sendmail ==
    /\ pc = "sending"
    /\ \E step \in SmtpSteps \cup {"none"} :
          LET stored == Stored(msg[1], nextId)
              landed == Accepted(step) /\ EMAIL_USER \in Range(final_to_list)
          IN  /\ inbox' = IF landed THEN Append(inbox, stored) ELSE inbox
              /\ nextId' = IF Accepted(step) THEN nextId + 1 ELSE nextId
              /\ sent' = IF Accepted(step)
                          THEN Append(sent,
                                 [prior |-> original_msg,
                                  envelope |-> Range(final_to_list),
                                  stored |-> stored,
                                  landed |-> landed])
                          ELSE sent
    /\ attempts' = attempts + 1
    /\ pc' = "exit"
    /\ NoLocals
    /\ UNCHANGED <<humans, run, configured>>

\* Another sender's mail arrives in the inbox before a run.
HumanMail ==
    /\ pc \in {"idle"} \cup Terminated
    /\ humans < MaxHuman
    /\ run < MaxRuns
    /\ \E m \in HumanMessages(inbox, EMAIL_USER, nextId) :
          /\ inbox' = Append(inbox, m)
          /\ nextId' = IF m.mid = <<>> THEN nextId ELSE nextId + 1
    /\ humans' = humans + 1
    /\ UNCHANGED <<run, pc, rds_data, fetchErr, original_msg, imap,
                   imapErr, matches, sessions, msg, final_to_list, attempts,
                   configured, sent>>

Next ==
    \/ LoadModule
    \/ get_rds_details
    \/ find_existing_thread
    \/ send_report
    \/ sendmail
    \/ HumanMail

Spec == Init /\ [][Next]_vars

\* ------------------------------------------------------------- properties
\* The addresses written in the headers of a message.
Addrs(values) == UNION {{v[i][2] : i \in 1..Len(v)} : v \in Range(values)}
Participants(m) == Addrs(m.to) \cup Addrs(m.cc) \cup Addrs(m.from)

Mandatory == Range(RECIPIENTS) \cup {EMAIL_USER}

\* The Message-IDs of a References value, in order.
IsId(t) == t # SP
Ids(refs) == IF refs = <<>> THEN <<>> ELSE SelectSeq(refs[1], IsId)

Replies == {k \in 1..Len(sent) : sent[k].prior # <<>>}

\* The position in the inbox of the message accepted as sent[k].
Landing(k) == {i \in 1..Len(inbox) : inbox[i].mid = sent[k].stored.mid}

ReSpaceRe == <<"r","e",":"," ","r","e",":">>

\* C1: whenever send_report hands a message to the mail transport, in the
\* NEW and in the REPLY state, the envelope holds the sender's address and
\* every address of RECIPIENTS.
C1_EnvelopeHasSenderAndRecipients ==
    /\ pc = "sending" =>
          /\ EMAIL_USER \in Range(final_to_list)
          /\ \A i \in 1..Len(RECIPIENTS) : RECIPIENTS[i] \in Range(final_to_list)
    /\ \A k \in 1..Len(sent) :
          /\ EMAIL_USER \in sent[k].envelope
          /\ \A i \in 1..Len(RECIPIENTS) : RECIPIENTS[i] \in sent[k].envelope

C1_Witness ==
    /\ pc = "sending"
    /\ original_msg # <<>>
    /\ Human \in Range(final_to_list)
    /\ \E k \in 1..Len(sent) : sent[k].prior = <<>>

\* C2: get_rds_details always returns; when an error was raised the record
\* is engine "Error", version "Error", status the error's text and an empty
\* pending_mods, and the run goes on to send_report.
C2_FetchNeverRaises ==
    [][pc = "main" =>
          /\ pc' = "send_report"
          /\ rds_data' # <<>>
          /\ fetchErr' # <<>> =>
                rds_data' = <<[engine |-> "Error", version |-> "Error",
                               status |-> fetchErr'[1], pending_mods |-> {}]>>]_vars

C2_Witness ==
    /\ pc = "send_report"
    /\ fetchErr = <<"Read timeout on endpoint URL">>
    /\ rds_data[1].status = "Read timeout on endpoint URL"

\* C3: every configured run that has ended made exactly one
\* mail-submission attempt.
C3_ExactlyOneAttempt ==
    (pc \in Terminated /\ configured) => attempts = 1

\* C4: in the REPLY state the subject is the prior subject when that one
\* starts with "re:" in any letter case, and "Re: " followed by it
\* otherwise; no accepted report has a doubled reply prefix.
C4_ReplySubject ==
    /\ (pc = "sending" /\ original_msg # <<>>) =>
          LET prior == original_msg[1].subject[1]
              low == Lower(prior)
              has == Len(low) >= 3 /\ low[1] = "r" /\ low[2] = "e" /\ low[3] = ":"
          IN  /\ has => msg[1].subject = prior
              /\ ~has => msg[1].subject = <<"R","e",":"," ">> \o prior
              /\ prior = MAIL_SUBJECT =>
                    msg[1].subject = <<"R","e",":"," ">> \o MAIL_SUBJECT
    /\ \A k \in 1..Len(sent) :
          ~Contains(Lower(sent[k].stored.subject[1]), ReSpaceRe)

C4_Witness ==
    /\ pc = "sending"
    /\ original_msg # <<>>
    /\ original_msg[1].from = <<<<Entry(EMAIL_USER)>>>>
    /\ original_msg[1].subject = <<ReUpper \o MAIL_SUBJECT>>
    /\ msg[1].subject = ReUpper \o MAIL_SUBJECT

\* C5: when the search has no match or a step of the mailbox session
\* raised, find_existing_thread returned None and the message is the NEW
\* one: the fixed subject, no In-Reply-To, no References, To the
\* recipient list, Cc the sender.
C5_NoThreadMeansNew ==
    (imapErr # "none" \/ (pc \in {"compose", "sending"} /\ matches = 0)) =>
        /\ pc \in {"compose", "sending"}
        /\ original_msg = <<>>
        /\ pc = "sending" =>
              /\ msg[1].subject = MAIL_SUBJECT
              /\ msg[1].inReplyTo = <<>>
              /\ msg[1].refs = <<>>
              /\ msg[1].to = <<[i \in 1..Len(RECIPIENTS) |-> <<"", RECIPIENTS[i]>>]>>
              /\ msg[1].cc = <<<<<<"", EMAIL_USER>>>>>>

C5_Witness ==
    /\ pc = "sending"
    /\ imapErr = "fetch"
    /\ matches > 0
    /\ msg[1].subject = MAIL_SUBJECT

\* C6: in the REPLY state In-Reply-To is the prior Message-ID and
\* References is the prior References (empty when absent) followed by a
\* space and the prior Message-ID; the Message-IDs of an accepted reply's
\* References are those of the message it answers, in order, then that
\* message's own.
C6_ReferencesChain ==
    /\ (pc = "sending" /\ original_msg # <<>>) =>
          LET prior == original_msg[1]
              old == IF prior.refs = <<>> THEN <<>> ELSE prior.refs[1]
          IN  /\ msg[1].inReplyTo = prior.mid
              /\ msg[1].refs = <<old \o <<SP, prior.mid[1]>>>>
    /\ \A k \in Replies :
          Ids(sent[k].stored.refs) =
              Ids(sent[k].prior[1].refs) \o sent[k].prior[1].mid

C6_Witness ==
    \E j, k \in Replies :
        /\ sent[k].prior = <<sent[j].stored>>
        /\ Len(Ids(sent[k].stored.refs)) >= 2

\* C7 as stated: every address in the To, Cc or From of a message an
\* earlier reply answered is in the envelope of every later reply.
C7_NoParticipantDropped ==
    \A j, k \in Replies :
        j < k => Participants(sent[j].prior[1]) \subseteq sent[k].envelope

\* C7, amended: a reply's envelope holds every address in the To, Cc and
\* From of the message it answers, RECIPIENTS and the sender; a reply to a
\* report of an earlier run also holds the addresses of the first To and
\* the first Cc header of the message that report answered.
C7_ReplyKeepsPriorParticipants ==
    /\ (pc = "sending" /\ original_msg # <<>>) =>
          Participants(original_msg[1]) \cup Mandatory \subseteq Range(final_to_list)
    /\ \A k \in Replies :
          Participants(sent[k].prior[1]) \cup Mandatory \subseteq sent[k].envelope
    /\ \A j, k \in Replies :
          sent[k].prior = <<sent[j].stored>> =>
              Addrs(First(sent[j].prior[1].to)) \cup Addrs(First(sent[j].prior[1].cc))
                  \subseteq sent[k].envelope

C7_Witness ==
    \E j, k \in Replies :
        /\ sent[k].prior = <<sent[j].stored>>
        /\ Human \in sent[j].envelope
        /\ Other \in sent[k].envelope

\* C8 as stated: once a report has landed in the inbox, a run whose
\* mailbox session succeeds replies to the latest landed report.
C8_RepliesToOwnReport ==
    (pc = "compose" /\ imapErr = "none" /\ sent # <<>>) =>
        original_msg = <<sent[Len(sent)].stored>>

\* C8, amended: every accepted report has the sender in its envelope, is
\* in the inbox and matches the search; a later run whose mailbox session
\* succeeds takes the REPLY path with the last search result, which is
\* that report or a matching message that arrived after it.
C8_RepliesToLatestMatch ==
    /\ \A k \in 1..Len(sent) :
          /\ EMAIL_USER \in sent[k].envelope
          /\ sent[k].landed
          /\ \E i \in 1..Len(inbox) : inbox[i] = sent[k].stored /\ Matches(inbox[i])
    /\ (pc = "compose" /\ imapErr = "none" /\ sent # <<>>) =>
          /\ original_msg # <<>>
          /\ \E i \in 1..Len(inbox) :
                /\ inbox[i] = original_msg[1]
                /\ Matches(inbox[i])
                /\ \A k \in 1..Len(sent) : \A l \in Landing(k) : l <= i
                /\ \A l \in 1..Len(inbox) : Matches(inbox[l]) => l <= i

C8_Witness ==
    /\ pc = "compose"
    /\ imapErr = "none"
    /\ sent # <<>>
    /\ original_msg = <<sent[Len(sent)].stored>>

\* C9: in the REPLY state the envelope is the duplicate-free set of the
\* prior message's To, Cc and From addresses, RECIPIENTS and the sender.
C9_EnvelopeIsUnion ==
    (pc = "sending" /\ original_msg # <<>>) =>
        /\ Range(final_to_list) = Participants(original_msg[1]) \cup Mandatory
        /\ Len(final_to_list) = Cardinality(Range(final_to_list))

\* C10: when find_existing_thread has returned, at most one mailbox
\* session was opened and none is left open.
C10_SessionClosed ==
    pc \in {"compose", "sending"} => (sessions <= 1 /\ imap # "open")

====
